---- MODULE Spec2Model ----
(***************************************************************************)
(* A model of marshmallow_form: class assembly (FormMeta), bound-field     *)
(* resolution (Field, BoundField, NestedBoundField, SubForm), the data     *)
(* binding pipeline (FormBase.cleansing / deserialize / serialize) and the *)
(* layouts (Layout, FlattenLayout).                                        *)
(*                                                                         *)
(* Python values are encoded as strings: "" is the empty string, "0" the   *)
(* integer zero, "None" is None; every other string is a truthy value.     *)
(* A dict is a function whose domain is its key set.  A dotted name is     *)
(* kept as the sequence of its segments; Join builds the dotted string.    *)
(***************************************************************************)
EXTENDS Integers, Sequences, FiniteSets, TLC

VARIABLES
    \* ---- FormBase.cleansing on its own -------------------------------
    clFields,     \* self.schema.fields of the cleansed form
    clPrefix,     \* self.prefix
    clData,       \* self.data (flat raw mapping, dotted keys)
    clResult,     \* [done, data, out]: the last cleansing() call
    \* ---- class assembly (FormMeta.__new__) ----------------------------
    counter,      \* C.i, the declaration counter
    cur,          \* the form class most recently constructed
    lastDef,      \* the last class statement: its inputs and its outcome
    \* ---- form instances ----------------------------------------------
    forms,        \* per instance: data, initial, errors, schema.fields,
                  \* ordered_names and the bound fields cached so far
    last          \* the last call on an instance and what it returned

clVars == <<clFields, clPrefix, clData, clResult>>
classVars == <<counter, cur, lastDef>>
formVars == <<forms, last>>

vars == <<clFields, clPrefix, clData, clResult, counter, cur, lastDef, forms, last>>

-----------------------------------------------------------------------------
(* Python values and dicts *)

None == "None"

\* the values Python treats as false in `x or y`
Falsy(v) == v \in {"", "0", "None"}

EmptyMap == [k \in {} |-> None]

\* dict.get(k, dflt)
Get(m, k, dflt) == IF k \in DOMAIN m THEN m[k] ELSE dflt

\* d[k] = v
Put(m, k, v) == [x \in (DOMAIN m) \cup {k} |-> IF x = k THEN v ELSE m[x]]

\* ".".join(path)
RECURSIVE Join(_)
Join(path) ==
    IF Len(path) = 1 THEN path[1]
    ELSE path[1] \o "." \o Join(Tail(path))

-----------------------------------------------------------------------------
(* marshmallow fields, as far as the form layer reads them *)

LeafField(required, isString, default) ==
    [nested |-> FALSE, required |-> required, isString |-> isString,
     default |-> default, children |-> <<>>]

\* fields.Nested(schema): children is schema._declared_fields, in order
NestedField(children) ==
    [nested |-> TRUE, required |-> TRUE, isString |-> FALSE,
     default |-> None, children |-> children]

Entry(name, f) == [name |-> name, f |-> f]

-----------------------------------------------------------------------------
(* FormBase._parsing_iterator and FormBase.cleansing *)

\* the (dotted name, leaf field) pairs of one field, depth first
RECURSIVE ParsingIterator(_, _)
RECURSIVE ParsingChildren(_, _)
ParsingIterator(path, f) ==
    IF f.nested THEN ParsingChildren(path, f.children)
    ELSE <<[k |-> path, f |-> f]>>

ParsingChildren(path, children) ==
    IF children = <<>> THEN <<>>
    ELSE ParsingIterator(path \o <<children[1].name>>, children[1].f)
         \o ParsingChildren(path, Tail(children))

RECURSIVE ParsingAll(_)
ParsingAll(fields) ==
    IF fields = <<>> THEN <<>>
    ELSE ParsingIterator(<<fields[1].name>>, fields[1].f) \o ParsingAll(Tail(fields))

\* a variant of the test that drops only optional non-text leaves
SkipsOptionalNonText(v, f) == v = "" /\ (~f.required /\ ~f.isString)

\* the test of line 389: the leaf is skipped
Skips(v, f) == v = "" /\ (f.required \/ ~f.isString)

\* lines 391-396: write v at the dotted path ts inside d
RECURSIVE SetPath(_, _, _)
SetPath(d, ts, v) ==
    IF Len(ts) = 1 THEN Put(d, ts[1], v)
    ELSE Put(d, ts[1], SetPath(Get(d, ts[1], EmptyMap), Tail(ts), v))

RECURSIVE CleansingLoop(_, _, _, _)
CleansingLoop(leaves, data, prefix, result) ==
    IF leaves = <<>> THEN result
    ELSE LET k == leaves[1].k
             f == leaves[1].f
             v == Get(data, prefix \o Join(k), "")
         IN  IF Skips(v, f)
             THEN CleansingLoop(Tail(leaves), data, prefix, result)
             ELSE CleansingLoop(Tail(leaves), data, prefix, SetPath(result, k, v))

\* cleansing(data): arg is the argument, an empty or missing one means self.data
Cleansing(fields, prefix, selfData, arg) ==
    LET data == IF DOMAIN arg = {} THEN selfData ELSE arg
    IN  CleansingLoop(ParsingAll(fields), data, prefix, EmptyMap)

-----------------------------------------------------------------------------
(* Specification SpecCleansing: cleansing() over every small schema and raw *)
(* mapping                                                                  *)

Prefixes == {"", "p-"}
RawValues == {"", "5"}
ClLeafPaths == {<<"age">>, <<"addr", "city">>}

\* the flat raw mappings over the given keys
RawMaps(keys) == UNION {[ks -> RawValues] : ks \in SUBSET keys}

KeysOf(prefix) == {prefix \o Join(p) : p \in ClLeafPaths}
AllKeys == UNION {KeysOf(p) : p \in Prefixes}

ClSchema(ra, sa, rc, sc) ==
    << Entry("age", LeafField(ra, sa, None)),
       Entry("addr", NestedField(<<Entry("city", LeafField(rc, sc, None))>>)) >>

NoCall == [done |-> FALSE, data |-> EmptyMap, out |-> EmptyMap]

IdleCl ==
    /\ clFields = ClSchema(TRUE, TRUE, TRUE, TRUE)
    /\ clPrefix = ""
    /\ clData = EmptyMap
    /\ clResult = NoCall

InitCl ==
    /\ \E ra, sa, rc, sc \in BOOLEAN : clFields = ClSchema(ra, sa, rc, sc)
    /\ clPrefix \in Prefixes
    /\ clData \in RawMaps(KeysOf(clPrefix))
    /\ clResult = NoCall

\* form.cleansing(arg)
DoCleansing ==
    /\ ~clResult.done
    /\ \E arg \in RawMaps(AllKeys) :
         clResult' = [done |-> TRUE,
                      data |-> IF DOMAIN arg = {} THEN clData ELSE arg,
                      out  |-> Cleansing(clFields, clPrefix, clData, arg)]
    /\ UNCHANGED <<clFields, clPrefix, clData>>
    /\ UNCHANGED <<classVars, formVars>>

NextCl == DoCleansing


\* does the nested mapping m hold an entry at the dotted path?
RECURSIVE HasPath(_, _)
HasPath(m, path) ==
    /\ path[1] \in DOMAIN m
    /\ (Len(path) > 1 => HasPath(m[path[1]], Tail(path)))

RECURSIVE AtPath(_, _)
AtPath(m, path) ==
    IF Len(path) = 1 THEN m[path[1]] ELSE AtPath(m[path[1]], Tail(path))

ClLeaves == ParsingAll(clFields)
ClRaw(i) == Get(clResult.data, clPrefix \o Join(ClLeaves[i].k), "")

-----------------------------------------------------------------------------
(* Field declarations and the iteration of bound fields *)

\* Field(field): the wrapper takes the next value of the counter C
FieldObj(c, name, field) == [c |-> c, name |-> name, field |-> field]

\* NestedBoundField.__iter__ over BoundField.__iter__: the names of the leaf
\* bound fields one bound field yields, children in declared order
RECURSIVE IterBound(_, _)
RECURSIVE IterChildren(_, _)
IterBound(path, f) ==
    IF f.nested THEN IterChildren(path, f.children)
    ELSE <<Join(path)>>

IterChildren(path, children) ==
    IF children = <<>> THEN <<>>
    ELSE IterBound(path \o <<children[1].name>>, children[1].f)
         \o IterChildren(path, Tail(children))

\* FlattenLayout.__call__: fieldOf[name] is form.schema.fields[name]
RECURSIVE FlattenIter(_, _)
FlattenIter(names, fieldOf) ==
    IF names = <<>> THEN <<>>
    ELSE IterBound(<<names[1]>>, fieldOf[names[1]]) \o FlattenIter(Tail(names), fieldOf)

Range(s) == {s[i] : i \in 1..Len(s)}

-----------------------------------------------------------------------------
(* Layout: shapes, set_from_shape, build_iterator, check_shape *)

\* a shape is a dotted field name, a list of shapes or an LColumn of shapes
SLeaf(path) == [t |-> "name", path |-> path, rows |-> <<>>]
SList(rows) == [t |-> "list", path |-> <<>>, rows |-> rows]
SCol(rows)  == [t |-> "column", path |-> <<>>, rows |-> rows]

NoLayout == [explicit |-> FALSE, shape |-> SList(<<>>)]
Layout(shape) == [explicit |-> TRUE, shape |-> shape]

\* Layout.set_from_shape: the names at the leaves of the shape
RECURSIVE SetFromShape(_)
RECURSIVE SetFromRows(_)
SetFromShape(shape) ==
    IF shape.t = "name" THEN {Join(shape.path)} ELSE SetFromRows(shape.rows)

SetFromRows(rows) ==
    IF rows = <<>> THEN {} ELSE SetFromShape(rows[1]) \cup SetFromRows(Tail(rows))

\* getattr along a dotted path from the form: TRUE when it ends at a bound field
RECURSIVE Reaches(_, _)
Reaches(path, f) ==
    IF Len(path) = 0 THEN TRUE
    ELSE /\ f.nested
         /\ \E i \in 1..Len(f.children) :
              /\ f.children[i].name = path[1]
              /\ Reaches(Tail(path), f.children[i].f)

RECURSIVE FieldAt(_, _)
FieldAt(path, f) ==
    IF Len(path) = 0 THEN f
    ELSE LET i == CHOOSE i \in 1..Len(f.children) : f.children[i].name = path[1]
         IN  FieldAt(Tail(path), f.children[i].f)

Raised(what, names) == [status |-> what, names |-> names]
Yields(names) == [status |-> "ok", names |-> names]

\* what `set(bf.name for bf in X)` gives for one element X of the iteration of
\* Layout.__call__: a leaf bound field has a name; a list, an LColumn pair and
\* a nested bound field have none
RowName(row, fieldOf) ==
    IF row.t # "name" THEN Raised("AttributeError", {})
    ELSE IF ~(row.path[1] \in DOMAIN fieldOf /\ Reaches(Tail(row.path), fieldOf[row.path[1]]))
         THEN Raised("AttributeError", {})
    ELSE IF FieldAt(Tail(row.path), fieldOf[row.path[1]]).nested
         THEN Raised("AttributeError", {})
    ELSE Yields({Join(row.path)})

\* does build_iterator reach a bound field for every name of the shape?
RECURSIVE Builds(_, _)
Builds(shape, fieldOf) ==
    IF shape.t = "name"
    THEN /\ shape.path[1] \in DOMAIN fieldOf
         /\ Reaches(Tail(shape.path), fieldOf[shape.path[1]])
    ELSE \A i \in 1..Len(shape.rows) : Builds(shape.rows[i], fieldOf)

\* the names of iter(Layout(shape)(form))
ShapeIter(shape, fieldOf) ==
    IF ~Builds(shape, fieldOf) THEN Raised("AttributeError", {})
    ELSE IF shape.t = "name"
         THEN Yields(Range(IterBound(shape.path,
                                     FieldAt(Tail(shape.path), fieldOf[shape.path[1]]))))
    ELSE IF shape.t = "column" THEN Raised("AttributeError", {})
    ELSE IF \E i \in 1..Len(shape.rows) : RowName(shape.rows[i], fieldOf).status # "ok"
         THEN Raised("AttributeError", {})
    ELSE Yields(UNION {RowName(shape.rows[i], fieldOf).names : i \in 1..Len(shape.rows)})

\* FormBase.__iter__ of the instance cls() built inside FormMeta.__new__:
\* self.layout is the layout found on the bases, cls.layout is not yet set
FormIterNames(inherited, ordered, fieldOf) ==
    IF inherited.explicit THEN ShapeIter(inherited.shape, fieldOf)
    ELSE Yields(Range(FlattenIter(ordered, fieldOf)))

\* Layout.check_shape
CheckShape(shape, expected) ==
    IF expected.status # "ok" THEN expected
    ELSE LET actual == SetFromShape(shape)
         IN  IF expected.names \ actual # {}
             THEN Raised("LayoutTooFew", expected.names \ actual)
             ELSE IF actual \ expected.names # {}
             THEN Raised("LayoutTooMany", actual \ expected.names)
             ELSE Yields({})

-----------------------------------------------------------------------------
(* FormMeta.__new__ *)

\* a form class: its attribute lookup for Field attributes (own class body
\* first, then the bases in order), ordered_names and layout
FormRoot == [attrs |-> <<>>, ordered_names |-> <<>>, layout |-> NoLayout]

\* lines 205-210: fields[k] = getattr(b, k) for k in b.ordered_names, b in bases
RECURSIVE CollectBases(_, _)
CollectBases(bases, fields) ==
    IF bases = <<>> THEN fields
    ELSE LET b == bases[1]
             got == [k \in Range(b.ordered_names) |-> b.attrs[k]]
         IN  CollectBases(Tail(bases), got @@ fields)

\* a variant that lets an inherited declaration win over the class body
CollectOwnKeepsInherited(body, fields) ==
    fields @@ [k \in DOMAIN body |-> [body[k] EXCEPT !.name = k]]

\* lines 219-223: v.name = k; fields[k] = v for the Field attributes of the body
CollectOwn(body, fields) ==
    [k \in DOMAIN body |-> [body[k] EXCEPT !.name = k]] @@ fields

\* sorted(fields.values(), key=lambda f: f._c)
RECURSIVE SortedByC(_)
SortedByC(fs) ==
    IF fs = {} THEN <<>>
    ELSE LET m == CHOOSE f \in fs : \A g \in fs : f.c <= g.c
         IN  <<m>> \o SortedByC(fs \ {m})

\* line 247
OrderedNames(fields) ==
    LET sorted == SortedByC({fields[k] : k \in DOMAIN fields})
    IN  [i \in 1..Len(sorted) |-> sorted[i].name]

\* Python attribute lookup on the new class: the class body, then the bases
RECURSIVE ClassDict(_, _)
ClassDict(bases, body) ==
    IF bases = <<>> THEN [k \in DOMAIN body |-> [body[k] EXCEPT !.name = k]]
    ELSE ClassDict(<<>>, body) @@ bases[1].attrs @@ ClassDict(Tail(bases), <<>>)

\* the layout attribute cls() finds before line 260 runs: that of the bases
InheritedLayout(bases) == bases[1].layout

\* FormMeta.__new__(name, bases, attrs): the class, or the error raised
MetaNew(bases, body, layout) ==
    LET fields  == CollectOwn(body, CollectBases(bases, <<>>))
        ordered == OrderedNames(fields)
        fieldOf == [k \in DOMAIN fields |-> fields[k].field]
        check   == IF layout.explicit
                   THEN CheckShape(layout.shape,
                                   FormIterNames(InheritedLayout(bases), ordered, fieldOf))
                   ELSE Yields({})
    IN  [cls    |-> [attrs |-> ClassDict(bases, body),
                     ordered_names |-> ordered,
                     layout |-> layout],
         result |-> check]

-----------------------------------------------------------------------------
(* Specifications SpecOrder and SpecLayout: chains of class statements *)

MaxChain == 3
MaxLayoutClasses == 2

OrderNames == {"x", "y", "n"}
LayoutNames == {"x", "n"}

\* the marshmallow field a declaration of the name wraps: n is Nested over a
\* form with the single leaf p
DeclField(name) ==
    IF name = "n" THEN NestedField(<<Entry("p", LeafField(TRUE, TRUE, None))>>)
    ELSE LeafField(TRUE, TRUE, None)

\* class bodies: each name gets a fresh Field; the Fields were created in any
\* order, so they carry the next Cardinality(S) counter values in any order
Bodies(names, c0) ==
    UNION {
      { [k \in S |-> FieldObj(c0 + ord[k], None, DeclField(k))] :
          ord \in {o \in [S -> 0..(Cardinality(S) - 1)] :
                      \A a, b \in S : a # b => o[a] # o[b]} } :
      S \in SUBSET names }

NoDef == [n |-> 0, base |-> FormRoot, cls |-> FormRoot, result |-> Yields({})]

InitClass ==
    /\ counter = 0
    /\ cur = FormRoot
    /\ lastDef = NoDef

\* class X(cur): <body>; class Meta: layout = <layout>
DefineClass(body, layout) ==
    LET made == MetaNew(<<cur>>, body, layout)
    IN  /\ counter' = counter + Cardinality(DOMAIN body)
        /\ lastDef' = [n |-> lastDef.n + 1, base |-> cur,
                       cls |-> made.cls, result |-> made.result]
        /\ cur' = IF made.result.status = "ok" THEN made.cls ELSE cur

\* subclassing without a layout
DefineOrdered ==
    /\ lastDef.n < MaxChain
    /\ \E body \in Bodies(OrderNames, counter) : DefineClass(body, NoLayout)
    /\ UNCHANGED <<clVars, formVars>>

\* the sub-sequence of master at the indices in I
RECURSIVE Pick(_, _)
Pick(master, I) ==
    IF master = <<>> THEN <<>>
    ELSE (IF Len(master) \in I THEN Pick(SubSeq(master, 1, Len(master) - 1), I) \o <<master[Len(master)]>>
          ELSE Pick(SubSeq(master, 1, Len(master) - 1), I))

\* the names a layout may mention: x, n.p and z (never declared)
ShapePaths == << <<"x">>, <<"n", "p">>, <<"z">> >>

LeafRows(I) == LET ps == Pick(ShapePaths, I) IN [i \in 1..Len(ps) |-> SLeaf(ps[i])]

\* flat lists, a nested list, a column inside a list, a bare name
Shapes ==
    UNION { {SList(LeafRows(I)), SList(<<SList(LeafRows(I))>>), SList(<<SCol(LeafRows(I))>>)} :
              I \in (SUBSET (1..Len(ShapePaths))) \ {{}} }
    \cup {SLeaf(ShapePaths[i]) : i \in 1..Len(ShapePaths)}

\* subclassing with or without an explicit layout
DefineWithLayout ==
    /\ lastDef.n < MaxLayoutClasses
    /\ \E body \in Bodies(LayoutNames, counter) :
         \E layout \in {NoLayout} \cup {Layout(s) : s \in Shapes} :
            DefineClass(body, layout)
    /\ UNCHANGED <<clVars, formVars>>

-----------------------------------------------------------------------------
(* Claims about class assembly *)

DefCls == lastDef.cls
DefNames == DefCls.ordered_names

\* C5: ordered_names lists exactly the declared names (inherited plus own),
\* strictly increasing by the counter of the Field in effect for each name, so
\* a redeclared name sits where the counter of the overriding Field puts it.
C5_OrderedByCounter ==
    lastDef.n > 0 =>
        /\ Range(DefNames) = DOMAIN DefCls.attrs
        /\ \A i, j \in 1..Len(DefNames) :
             i < j => DefCls.attrs[DefNames[i]].c < DefCls.attrs[DefNames[j]].c

PositionOf(names, k) == CHOOSE i \in 1..Len(names) : names[i] = k

\* a subclass redeclared an inherited name and the name moved behind a name it
\* used to precede
C5_Witness ==
    /\ lastDef.n > 1
    /\ \E k, other \in DOMAIN lastDef.base.attrs :
         /\ k # other
         /\ lastDef.base.attrs[k].c # DefCls.attrs[k].c
         /\ lastDef.base.attrs[other].c = DefCls.attrs[other].c
         /\ PositionOf(lastDef.base.ordered_names, k)
              < PositionOf(lastDef.base.ordered_names, other)
         /\ PositionOf(DefNames, k) > PositionOf(DefNames, other)

\* the dotted leaf names of the fields declared on the class, own plus inherited
DeclaredLeafNames(cls) ==
    UNION {Range(IterBound(<<k>>, cls.attrs[k].field)) : k \in DOMAIN cls.attrs}

\* C3: with an explicit layout, class construction succeeds iff the leaf names
\* of the shape equal the declared dotted leaf names; otherwise it raises
\* LayoutTooFew with exactly the missing names or LayoutTooMany with exactly
\* the undeclared names.
C3_CheckShapeExact ==
    (lastDef.n > 0 /\ DefCls.layout.explicit) =>
        LET declared == DeclaredLeafNames(DefCls)
            actual   == SetFromShape(DefCls.layout.shape)
        IN  /\ lastDef.result.status = "ok" <=> actual = declared
            /\ actual # declared =>
                 \/ /\ declared \ actual # {}
                    /\ lastDef.result = Raised("LayoutTooFew", declared \ actual)
                 \/ /\ actual \ declared # {}
                    /\ lastDef.result = Raised("LayoutTooMany", actual \ declared)

\* C3 restricted to classes whose bases carry the default flatten layout
C3_DirectSubclass ==
    (lastDef.n > 0 /\ DefCls.layout.explicit /\ ~lastDef.base.layout.explicit)
        => C3_CheckShapeExact

-----------------------------------------------------------------------------
(* Form instances and bound fields *)

\* the attribute slots that can hold a bound field: form.__dict__ for the
\* one-segment paths, the __dict__ of the nested bound field for the others
Slots == { <<"a">>, <<"addr">>, <<"addr", "city">>, <<"addr", "geo">>,
           <<"addr", "geo", "lat">>, <<"extra">> }

NoOid == [form |-> "", path |-> <<>>, n |-> 0]
NoScope == [isForm |-> TRUE, form |-> "", data |-> EmptyMap, initial |-> EmptyMap]
Unset == [set |-> FALSE, v |-> None]
IsSet(v) == [set |-> TRUE, v |-> v]
IsSetNames(names) == [set |-> TRUE, names |-> names]

\* an empty slot
NoBF == [live |-> FALSE, oid |-> NoOid, name |-> "", key |-> "",
         field |-> LeafField(FALSE, FALSE, None), scope |-> NoScope,
         value |-> Unset, seen |-> Unset]

\* the form itself as the `form` of a bound field
FormScope(f) == [isForm |-> TRUE, form |-> f, data |-> EmptyMap, initial |-> EmptyMap]

\* bound_field(name, field, ob, key): NestedBoundField keeps name as _name and
\* sets no key; BoundField sets key = key or name.  oid is the identity of the
\* new object; seen records the result of the first read of value.
BoundFieldOf(oid, name, field, scope, key) ==
    [live |-> TRUE, oid |-> oid, name |-> name,
     key |-> IF field.nested THEN "" ELSE (IF key = "" THEN name ELSE key),
     field |-> field, scope |-> scope, value |-> Unset, seen |-> Unset]

\* self.errors = None; a dict of errors is kept as its key set
NoErrors == [none |-> TRUE, keys |-> {}]
ErrorDict(keys) == [none |-> FALSE, keys |-> keys]

\* FormBase.__init__(data, initial) for a class with the given schema fields;
\* faulted records that an add_field or remove_field call has raised
NewForm(data, initial, fields) ==
    [data |-> data, initial |-> initial, prefix |-> "",
     errors |-> NoErrors,
     fields |-> fields,
     own_names |-> [set |-> FALSE, names |-> <<>>],
     faulted |-> FALSE,
     cache |-> [p \in Slots |-> NoBF],
     made |-> [p \in Slots |-> 0]]

\* the schema fields of an instance of the class, in declared order
SchemaFields(cls) ==
    [i \in 1..Len(cls.ordered_names) |->
        Entry(cls.ordered_names[i], cls.attrs[cls.ordered_names[i]].field)]

HasField(fields, name) == \E i \in 1..Len(fields) : fields[i].name = name
FieldNamed(fields, name) ==
    fields[CHOOSE i \in 1..Len(fields) : fields[i].name = name].f

\* form.data / form.initial as a bound field sees them through its `form`
ScopeData(fs, scope) == IF scope.isForm THEN fs[scope.form].data ELSE scope.data
ScopeInitial(fs, scope) == IF scope.isForm THEN fs[scope.form].initial ELSE scope.initial

\* SubForm.from_form(name, form)
SubFormFrom(fs, name, scope) ==
    [isForm |-> FALSE, form |-> "",
     data |-> Get(ScopeData(fs, scope), name, EmptyMap),
     initial |-> Get(ScopeInitial(fs, scope), name, EmptyMap)]

\* BoundField.value, lines 127-129
ValueOf(fs, bf) ==
    LET d == Get(ScopeData(fs, bf.scope), bf.key, None)
        i == Get(ScopeInitial(fs, bf.scope), bf.key, None)
    IN  IF ~Falsy(d) THEN d
        ELSE IF ~Falsy(i) THEN i
        ELSE bf.field.default

\* a variant of reify.__get__ without the setattr of line 37
ReifyForgets(bf, val) == bf

\* reify.__get__: setattr(inst, name, val) shadows the descriptor
Reify(bf, val) == [bf EXCEPT !.value = IsSet(val)]

\* a variant of line 77 that keeps the bound field on every instance
StoreOnAll(fs, f, path, bf) ==
    [g \in DOMAIN fs |-> [fs[g] EXCEPT !.cache[path] = bf, !.made[path] = @ + 1]]

\* ob.__dict__[name] = bf (line 77) and setattr(self, k, bf) (line 177)
Store(fs, f, path, bf) ==
    [fs EXCEPT ![f].cache[path] = bf, ![f].made[path] = @ + 1]

NewOid(fs, f, path) == [form |-> f, path |-> path, n |-> fs[f].made[path] + 1]

\* the outcome of a getattr: hit says the attribute was already there
Got(fs, raised, oid, hit) == [fs |-> fs, raised |-> raised, oid |-> oid, hit |-> hit]

\* form.<name>: the instance attribute if there is one, else Field.__get__
GetTop(cls, fs, f, name) ==
    LET path == <<name>>
        slot == fs[f].cache[path]
    IN  IF slot.live THEN Got(fs, "none", slot.oid, TRUE)
        ELSE IF name \notin DOMAIN cls.attrs THEN Got(fs, "AttributeError", NoOid, FALSE)
        ELSE IF ~HasField(fs[f].fields, name) THEN Got(fs, "KeyError", NoOid, FALSE)
        ELSE LET bf == BoundFieldOf(NewOid(fs, f, path), name,
                                    FieldNamed(fs[f].fields, name), FormScope(f), "")
             IN  Got(Store(fs, f, path, bf), "none", bf.oid, FALSE)

\* <nested bound field>.<k>: the cached child, else NestedBoundField.__getattr__
GetChild(fs, f, parent, k) ==
    LET path == parent \o <<k>>
        nbf  == fs[f].cache[parent]
    IN  IF path \in Slots /\ fs[f].cache[path].live
        THEN Got(fs, "none", fs[f].cache[path].oid, TRUE)
        ELSE IF ~HasField(nbf.field.children, k) THEN Got(fs, "AttributeError", NoOid, FALSE)
        ELSE LET bf == BoundFieldOf(NewOid(fs, f, path), nbf.name \o "." \o k,
                                    FieldNamed(nbf.field.children, k),
                                    SubFormFrom(fs, nbf.name, nbf.scope), k)
             IN  Got(Store(fs, f, path, bf), "none", bf.oid, FALSE)

NoOp == [op |-> "none", form |-> "", path |-> <<>>, raised |-> "none",
         ret |-> None, oid |-> NoOid, names |-> <<>>, ok |-> FALSE,
         retmap |-> EmptyMap, sent |-> EmptyMap,
         reported |-> [data |-> EmptyMap, errors |-> {}]]

Access(f, name) ==
    LET got == GetTop(cur, forms, f, name)
    IN  /\ forms' = got.fs
        /\ last' = [NoOp EXCEPT !.op = "access", !.form = f, !.path = <<name>>,
                                !.raised = got.raised, !.oid = got.oid,
                                   !.ok = got.hit]

AccessChild(f, parent, k) ==
    /\ forms[f].cache[parent].live
    /\ forms[f].cache[parent].field.nested
    /\ LET got == GetChild(forms, f, parent, k)
       IN  /\ forms' = got.fs
           /\ last' = [NoOp EXCEPT !.op = "access", !.form = f, !.path = parent \o <<k>>,
                                   !.raised = got.raised, !.oid = got.oid,
                                   !.ok = got.hit]

\* <leaf bound field>.value; seen keeps the result of the first read
ReadValue(f, path) ==
    LET bf   == forms[f].cache[path]
        val  == IF bf.value.set THEN bf.value.v ELSE ValueOf(forms, bf)
        kept == IF bf.value.set THEN bf ELSE Reify(bf, val)
    IN  /\ bf.live /\ ~bf.field.nested
        /\ forms' = [forms EXCEPT ![f].cache[path] =
                        [kept EXCEPT !.seen = IF bf.seen.set THEN bf.seen ELSE IsSet(val)]]
        /\ last' = [NoOp EXCEPT !.op = "value", !.form = f, !.path = path,
                                !.ret = val, !.oid = bf.oid, !.ok = ~bf.seen.set]

\* self.ordered_names: the instance attribute once remove_field made one
NamesOf(cls, form) == IF form.own_names.set THEN form.own_names.names ELSE cls.ordered_names

\* `for f in bf` (BoundField.__iter__, NestedBoundField.__iter__): every child
\* is fetched with getattr and iterated in turn
\* a variant in which a nested bound field iterates like a plain one (yield self)
IterBFYieldsSelf(fs, f, path) == [fs |-> fs, names |-> <<fs[f].cache[path].name>>]

RECURSIVE IterBF(_, _, _)
RECURSIVE IterKids(_, _, _, _)
IterBF(fs, f, path) ==
    LET bf == fs[f].cache[path]
    IN  IF bf.field.nested THEN IterKids(fs, f, path, bf.field.children)
        ELSE [fs |-> fs, names |-> <<bf.name>>]

IterKids(fs, f, path, kids) ==
    IF kids = <<>> THEN [fs |-> fs, names |-> <<>>]
    ELSE LET got  == GetChild(fs, f, path, kids[1].name)
             head == IterBF(got.fs, f, path \o <<kids[1].name>>)
             rest == IterKids(head.fs, f, path, Tail(kids))
         IN  [fs |-> rest.fs, names |-> head.names \o rest.names]

\* FlattenLayout.__call__ run to the end: the names of the bound fields it
\* yields, or the error of the first getattr that fails
RECURSIVE FlattenCall(_, _, _, _)
FlattenCall(cls, fs, f, names) ==
    IF names = <<>> THEN [fs |-> fs, names |-> <<>>, raised |-> "none"]
    ELSE LET got == GetTop(cls, fs, f, names[1])
         IN  IF got.raised # "none"
             THEN [fs |-> fs, names |-> <<>>, raised |-> got.raised]
             ELSE LET head == IterBF(got.fs, f, <<names[1]>>)
                      rest == FlattenCall(cls, head.fs, f, Tail(names))
                  IN  [fs |-> rest.fs, names |-> head.names \o rest.names,
                       raised |-> rest.raised]

\* list(form) for a class with the default layout
Iterate(f) ==
    LET run == FlattenCall(cur, forms, f, NamesOf(cur, forms[f]))
    IN  /\ ~cur.layout.explicit
        /\ forms' = run.fs
        /\ last' = [NoOp EXCEPT !.op = "iter", !.form = f, !.raised = run.raised,
                                !.names = run.names]

-----------------------------------------------------------------------------
(* The form class of the instances, and the mappings they are built from *)

\*   class AddressForm: city = String(); geo = Nested(GeoForm)   (GeoForm: lat)
\*   class PersonForm:  a = String(default "d"); addr = Nested(AddressForm)
PersonField(name) ==
    IF name = "addr"
    THEN NestedField(<< Entry("city", LeafField(TRUE, TRUE, None)),
                        Entry("geo", NestedField(<<Entry("lat", LeafField(TRUE, FALSE, "d"))>>)) >>)
    ELSE LeafField(FALSE, TRUE, "d")

\* the class bodies declaring a and addr, in either order
PersonBodies ==
    { [k \in {"a", "addr"} |-> FieldObj(IF k = first THEN 0 ELSE 1, None, PersonField(k))] :
        first \in {"a", "addr"} }

\* the body that declares a before addr
AFirst == {b \in PersonBodies : b["a"].c < b["addr"].c}

InitPerson(bodies) ==
    \E body \in bodies :
        LET made == MetaNew(<<FormRoot>>, body, NoLayout)
        IN  /\ counter = Cardinality(DOMAIN body)
            /\ cur = made.cls
            /\ lastDef = [n |-> 1, base |-> FormRoot, cls |-> made.cls, result |-> made.result]

\* the nested mappings shaped like the fields, every entry present or absent,
\* a leaf entry holding one of vals or, for the top-level leaf, one of tops
RECURSIVE TreesOf(_, _, _)
TreesOf(kids, tops, vals) ==
    IF kids = <<>> THEN {EmptyMap}
    ELSE LET sub  == IF kids[1].f.nested THEN TreesOf(kids[1].f.children, vals, vals)
                     ELSE tops
             rest == TreesOf(Tail(kids), tops, vals)
         IN  rest \cup {Put(r, kids[1].name, t) : r \in rest, t \in sub}

PersonKids == <<Entry("a", PersonField("a")), Entry("addr", PersonField("addr"))>>

DataTrees == TreesOf(PersonKids, {"0", "x"}, {"x"})
InitialTrees == TreesOf(PersonKids, {"0", "i"}, {"i"})

FullData == [a |-> "x", addr |-> [city |-> "x", geo |-> [lat |-> "x"]]]
FullInitial == [a |-> "i", addr |-> [city |-> "i", geo |-> [lat |-> "i"]]]
OtherData == [a |-> "0", addr |-> [city |-> "y"]]

IdleForms ==
    /\ forms = <<>>
    /\ last = NoOp

\* f1 = PersonForm(data, initial)
InitOneForm(datas, initials) ==
    /\ \E d \in datas, i \in initials :
         forms = [f \in {"f1"} |-> NewForm(d, i, SchemaFields(cur))]
    /\ last = NoOp

\* f1 = PersonForm(data, initial); f2 = PersonForm(OtherData)
InitTwoForms(datas, initials) ==
    /\ \E d \in datas, i \in initials :
         forms = [f \in {"f1", "f2"} |->
                    IF f = "f1" THEN NewForm(d, i, SchemaFields(cur))
                    ELSE NewForm(OtherData, EmptyMap, SchemaFields(cur))]
    /\ last = NoOp

TopNames == {"a", "addr", "extra"}
ChildNames == {"city", "geo", "lat", "zip"}
NestedSlots == {<<"addr">>, <<"addr", "geo">>}

DoAccess ==
    /\ \E f \in DOMAIN forms, name \in TopNames : Access(f, name)
    /\ UNCHANGED <<clVars, classVars>>

DoAccessChild ==
    /\ \E f \in DOMAIN forms, parent \in NestedSlots, k \in ChildNames :
         AccessChild(f, parent, k)
    /\ UNCHANGED <<clVars, classVars>>

DoReadValue ==
    /\ \E f \in DOMAIN forms, path \in Slots : ReadValue(f, path)
    /\ UNCHANGED <<clVars, classVars>>

DoIterate ==
    /\ \E f \in DOMAIN forms : Iterate(f)
    /\ UNCHANGED <<clVars, classVars>>

-----------------------------------------------------------------------------
(* Claims about bound fields *)

LastForm == forms[last.form]
LastBF == LastForm.cache[last.path]

\* the first read of value on a bound field has just returned
FirstRead == last.op = "value" /\ last.ok

\* C2: the first read of value on a plain bound field with key k returns
\* data[k] whenever k is in the submitted data (falsy values included), else
\* initial[k] when k is in the initial data, else the field default.
C2_ValuePriority ==
    (FirstRead /\ Len(last.path) = 1) =>
        last.ret = IF LastBF.key \in DOMAIN LastForm.data THEN LastForm.data[LastBF.key]
                   ELSE IF LastBF.key \in DOMAIN LastForm.initial
                        THEN LastForm.initial[LastBF.key]
                   ELSE LastBF.field.default

\* C2 for truthy entries only: the priority order data, initial, default holds
\* when the entries found are not falsy
C2_TruthyPriority ==
    (FirstRead /\ Len(last.path) = 1
       /\ ~Falsy(Get(LastForm.data, LastBF.key, "x"))
       /\ ~Falsy(Get(LastForm.initial, LastBF.key, "x"))) => C2_ValuePriority

\* C4: a leaf reached by the dotted path p1...pn, n >= 2, is named p1.p2...pn
\* and its value is data[p1]...[pn] when present, else the same path in the
\* initial data, else the field default.
C4_NestedValue ==
    (FirstRead /\ Len(last.path) >= 2) =>
        /\ LastBF.name = Join(last.path)
        /\ last.ret = IF HasPath(LastForm.data, last.path)
                      THEN AtPath(LastForm.data, last.path)
                      ELSE IF HasPath(LastForm.initial, last.path)
                           THEN AtPath(LastForm.initial, last.path)
                      ELSE LastBF.field.default

\* C4 at depth 2 only
C4_DepthTwo == Len(last.path) = 2 => C4_NestedValue

\* C6: on one instance a bound field is built at most once per name and every
\* access returns that object; the bound fields of two instances are distinct
\* objects, each bound to the data and initial mappings of its own instance.
C6_CachedPerInstance ==
    /\ \A f \in DOMAIN forms, p \in Slots :
         /\ forms[f].made[p] <= 1
         /\ forms[f].cache[p].live =>
              /\ forms[f].cache[p].oid = [form |-> f, path |-> p, n |-> 1]
              /\ IF Len(p) = 1
                 THEN forms[f].cache[p].scope = FormScope(f)
                 ELSE LET up == forms[f].cache[SubSeq(p, 1, Len(p) - 1)]
                      IN  /\ up.live
                          /\ forms[f].cache[p].scope = SubFormFrom(forms, up.name, up.scope)
    /\ \A f, g \in DOMAIN forms, p \in Slots :
         (f # g /\ forms[f].cache[p].live /\ forms[g].cache[p].live)
            => forms[f].cache[p].oid # forms[g].cache[p].oid
    /\ (last.op = "access" /\ last.raised = "none") =>
         /\ LastBF.live
         /\ last.oid = LastBF.oid

\* a repeated access returned the cached bound field of a name that both
\* instances have bound, the nested one with different data
C6_Witness ==
    /\ last.op = "access" /\ last.ok /\ last.path = <<"addr", "city">>
    /\ \A f \in {"f1", "f2"} : forms[f].cache[<<"addr", "city">>].live
    /\ forms["f1"].cache[<<"addr", "city">>].scope.data
         # forms["f2"].cache[<<"addr", "city">>].scope.data

\* C7: iterating a form with the flatten layout yields the leaf bound fields
\* only, one per leaf, top-level fields in declaration order, a nested field
\* replaced by its leaves depth first under their dotted names.
C7_FlattenOrder ==
    last.op = "iter" =>
        /\ last.raised = "none"
        /\ last.names = IF cur.attrs["a"].c < cur.attrs["addr"].c
                        THEN <<"a", "addr.city", "addr.geo.lat">>
                        ELSE <<"addr.city", "addr.geo.lat", "a">>
        /\ \A i \in 1..Len(last.names) :
             \E p \in Slots :
                /\ LastForm.cache[p].live /\ ~LastForm.cache[p].field.nested
                /\ LastForm.cache[p].name = last.names[i]
                /\ Join(p) = last.names[i]

\* an iteration of the class that declares addr before a
C7_Witness ==
    /\ last.op = "iter" /\ Len(last.names) = 3
    /\ cur.attrs["addr"].c < cur.attrs["a"].c

-----------------------------------------------------------------------------
(* The data binding pipeline on an instance *)

\* a variant that takes any stored errors dict, even an empty one, as errors
HasErrorsOnceLoaded(form) == ~form.errors.none

\* FormBase.has_errors: bool(self.errors)
HasErrors(form) == ~form.errors.none /\ form.errors.keys # {}

\* FormBase.load up to the call of schema.load: the mapping handed to the schema
LoadInput(form, arg, cleansing) ==
    IF cleansing THEN Cleansing(form.fields, form.prefix, form.data, arg)
    ELSE (IF DOMAIN arg = {} THEN form.data ELSE arg)

\* FormBase.deserialize with schema.load reporting res = (data, errors)
DeserializeTo(form, res) ==
    [form EXCEPT !.errors = ErrorDict(res.errors), !.data = res.data]

\* form.deserialize(arg, cleansing)
Deserialize(f, arg, cleansing, res) ==
    /\ forms' = [forms EXCEPT ![f] = DeserializeTo(forms[f], res)]
    /\ last' = [NoOp EXCEPT !.op = "deserialize", !.form = f,
                            !.sent = LoadInput(forms[f], arg, cleansing),
                            !.reported = res, !.retmap = res.data]

\* form.validate(arg): deserialize(data, cleansing=True), then not has_errors()
Validate(f, arg, res) ==
    LET form == DeserializeTo(forms[f], res)
    IN  /\ forms' = [forms EXCEPT ![f] = form]
        /\ last' = [NoOp EXCEPT !.op = "validate", !.form = f,
                                !.sent = LoadInput(forms[f], arg, TRUE),
                                !.reported = res, !.ok = ~HasErrors(form)]

\* form.has_errors()
CallHasErrors(f) ==
    /\ last' = [NoOp EXCEPT !.op = "has_errors", !.form = f, !.ok = HasErrors(forms[f])]
    /\ UNCHANGED forms

\* form.serialize(arg) with schema.dump reporting res = (data, errors)
Serialize(f, arg, res) ==
    /\ last' = [NoOp EXCEPT !.op = "serialize", !.form = f,
                            !.sent = IF DOMAIN arg = {} THEN forms[f].data ELSE arg,
                            !.reported = res,
                            !.raised = IF res.errors # {} THEN "MarshallingError" ELSE "none",
                            !.retmap = IF res.errors # {} THEN EmptyMap ELSE res.data]
    /\ UNCHANGED forms

\* form.data = d and form.initial = i, by the caller
SetData(f, d) ==
    /\ forms[f].data # d
    /\ forms' = [forms EXCEPT ![f].data = d]
    /\ last' = [NoOp EXCEPT !.op = "set_data", !.form = f]

SetInitial(f, i) ==
    /\ forms[f].initial # i
    /\ forms' = [forms EXCEPT ![f].initial = i]
    /\ last' = [NoOp EXCEPT !.op = "set_initial", !.form = f]

\* what schema.load and schema.dump may report
LoadedData == [a |-> "y", addr |-> [city |-> "y", geo |-> [lat |-> "y"]]]
Reports == { [data |-> LoadedData, errors |-> {}],
             [data |-> [a |-> "y"], errors |-> {"addr"}],
             [data |-> EmptyMap, errors |-> {"a", "addr"}] }

\* the raw mappings passed as the data argument; the empty one stands for None
RawArgs == {EmptyMap, [a |-> ""], [a |-> "z"]}

DoDeserialize ==
    /\ \E f \in DOMAIN forms, arg \in RawArgs, c \in BOOLEAN, res \in Reports :
         Deserialize(f, arg, c, res)
    /\ UNCHANGED <<clVars, classVars>>

DoValidate ==
    /\ \E f \in DOMAIN forms, arg \in RawArgs, res \in Reports : Validate(f, arg, res)
    /\ UNCHANGED <<clVars, classVars>>

DoHasErrors ==
    /\ \E f \in DOMAIN forms : CallHasErrors(f)
    /\ UNCHANGED <<clVars, classVars>>

DoSerialize ==
    /\ \E f \in DOMAIN forms, arg \in RawArgs, res \in Reports : Serialize(f, arg, res)
    /\ UNCHANGED <<clVars, classVars>>

\* form.deserialize() and form.validate() without arguments, the schema
\* reporting a clean load or one with errors
DoLoadDefault ==
    /\ \E f \in DOMAIN forms :
         \/ Deserialize(f, EmptyMap, TRUE, [data |-> LoadedData, errors |-> {}])
         \/ Validate(f, EmptyMap, [data |-> [a |-> "y"], errors |-> {"addr"}])
    /\ UNCHANGED <<clVars, classVars>>

DoSetData ==
    /\ \E f \in DOMAIN forms : SetData(f, EmptyMap)
    /\ UNCHANGED <<clVars, classVars>>

DoSetInitial ==
    /\ \E f \in DOMAIN forms : SetInitial(f, EmptyMap)
    /\ UNCHANGED <<clVars, classVars>>

-----------------------------------------------------------------------------
(* Claims about the pipeline and the cached value *)

\* C8: deserialize and validate never raise on reported errors, they store
\* the reported errors and data; has_errors() is true iff the stored errors
\* are non-empty (false before any load); validate returns its negation;
\* serialize raises MarshallingError iff dump reports errors, else returns
\* the dumped data.
C8_ErrorSurfacing ==
    /\ last.op \in {"deserialize", "validate"} =>
         /\ last.raised = "none"
         /\ LastForm.errors = ErrorDict(last.reported.errors)
         /\ LastForm.data = last.reported.data
    /\ last.op = "deserialize" => last.retmap = last.reported.data
    /\ last.op = "validate" => (last.ok <=> last.reported.errors = {})
    /\ last.op = "has_errors" =>
         (last.ok <=> (~LastForm.errors.none /\ LastForm.errors.keys # {}))
    /\ last.op = "serialize" =>
         /\ last.raised = (IF last.reported.errors # {} THEN "MarshallingError" ELSE "none")
         /\ last.raised = "none" => last.retmap = last.reported.data

\* validate has just returned False on reported errors, without raising
C8_Witness ==
    /\ last.op = "validate" /\ ~last.ok /\ last.raised = "none"
    /\ last.reported.errors # {}
    /\ LastForm.errors.keys = last.reported.errors

\* C9: every read of value on a bound field returns what the first read on
\* that bound field returned, whatever happened to form.data and form.initial
\* in between.
C9_ValueCached ==
    /\ last.op = "value" => last.ret = LastBF.seen.v
    /\ \A f \in DOMAIN forms, p \in Slots :
         forms[f].cache[p].seen.set =>
            forms[f].cache[p].value = forms[f].cache[p].seen

\* a repeated read returned the first result although the form's current
\* data would now give another value
C9_Witness ==
    /\ last.op = "value" /\ ~last.ok
    /\ LastBF.scope.isForm
    /\ last.ret # ValueOf(forms, LastBF)

-----------------------------------------------------------------------------
(* FormBase.add_field and FormBase.remove_field *)

MaxMade == 2

\* schema.fields[name] = field on the ordered dict
SetField(fields, name, field) ==
    IF HasField(fields, name)
    THEN [i \in 1..Len(fields) |-> IF fields[i].name = name THEN Entry(name, field)
                                   ELSE fields[i]]
    ELSE Append(fields, Entry(name, field))

\* del schema.fields[name]
DelField(fields, name) == SelectSeq(fields, LAMBDA e : e.name # name)

\* the slots under a top-level name: the bound field and, with it, the
\* children cached on it
Under(name) == {p \in Slots : p[1] = name}

\* list.remove(name)
RECURSIVE ListRemove(_, _)
ListRemove(names, name) ==
    IF names = <<>> THEN <<>>
    ELSE IF names[1] = name THEN Tail(names)
    ELSE <<names[1]>> \o ListRemove(Tail(names), name)

\* form.add_field(name, field): lines 358-361
AddField(f, name, field) ==
    LET bf == [BoundFieldOf(NewOid(forms, f, <<name>>), name, field, FormScope(f), "")
                  EXCEPT !.key = name]
        cleared == [forms EXCEPT ![f].cache =
                       [p \in Slots |-> IF p \in Under(name) THEN NoBF ELSE @[p]]]
    IN  /\ forms[f].made[<<name>>] < MaxMade
        /\ forms' = [Store(cleared, f, <<name>>, bf)
                        EXCEPT ![f].fields = SetField(@, name, field)]
        /\ last' = [NoOp EXCEPT !.op = "add_field", !.form = f, !.path = <<name>>,
                                !.oid = bf.oid]

\* lines 367-369: the instance gets its own copy of ordered_names, then
\* list.remove, which raises ValueError for a name that is not in the list
RemoveName(cls, form, name) ==
    LET names == NamesOf(cls, form)
    IN  IF name \in Range(names)
        THEN [form |-> [form EXCEPT !.own_names = IsSetNames(ListRemove(names, name))],
              raised |-> "none"]
        ELSE [form |-> [form EXCEPT !.own_names = IsSetNames(names), !.faulted = TRUE],
              raised |-> "ValueError"]

\* form.remove_field(name): lines 364-369
RemoveField(f, name) ==
    LET got  == GetTop(cur, forms, f, name)
        op   == [NoOp EXCEPT !.op = "remove_field", !.form = f, !.path = <<name>>,
                             !.ok = HasField(forms[f].fields, name)]
        gone == [got.fs EXCEPT ![f].cache =
                    [p \in Slots |-> IF p \in Under(name) THEN NoBF ELSE @[p]]]
    IN  IF got.raised = "KeyError"
        THEN /\ forms' = [forms EXCEPT ![f].faulted = TRUE]
             /\ last' = [op EXCEPT !.raised = "KeyError"]
        ELSE IF got.raised = "AttributeError"
        THEN LET rm == RemoveName(cur, forms[f], name)
             IN  /\ forms' = [forms EXCEPT ![f] = rm.form]
                 /\ last' = [op EXCEPT !.raised = rm.raised]
        ELSE IF ~HasField(gone[f].fields, name)
        THEN /\ forms' = [gone EXCEPT ![f].faulted = TRUE]
             /\ last' = [op EXCEPT !.raised = "KeyError"]
        ELSE LET rm == RemoveName(cur, [gone[f] EXCEPT !.fields = DelField(@, name)], name)
             IN  /\ forms' = [gone EXCEPT ![f] = rm.form]
                 /\ last' = [op EXCEPT !.raised = rm.raised]

DoAddField ==
    /\ \E f \in DOMAIN forms, name \in {"a", "extra"} :
         AddField(f, name, LeafField(FALSE, TRUE, None))
    /\ UNCHANGED <<clVars, classVars>>

DoRemoveField ==
    /\ \E f \in DOMAIN forms, name \in TopNames : RemoveField(f, name)
    /\ UNCHANGED <<clVars, classVars>>

FieldNames(form) == {form.fields[i].name : i \in 1..Len(form.fields)}

\* C10: while no add_field or remove_field call has raised, the names the
\* flatten iteration traverses are the keys of schema.fields; an added field
\* is yielded by iteration, and remove_field of a name that add_field put
\* into schema.fields completes without raising.
C10_NamesMatchSchema ==
    /\ \A f \in DOMAIN forms :
         ~forms[f].faulted => Range(NamesOf(cur, forms[f])) = FieldNames(forms[f])
    /\ (last.op = "iter" /\ ~LastForm.faulted) => Range(last.names) = FieldNames(LastForm)
    /\ (last.op = "remove_field" /\ last.ok) => last.raised = "none"

-----------------------------------------------------------------------------
(* Specifications *)

\* cleansing() over every small schema and raw mapping
InitCleansing == InitCl /\ InitClass /\ IdleForms
SpecCleansing == InitCleansing /\ [][NextCl]_vars

\* chains of class statements without layouts, Fields created in any order
InitChain == IdleCl /\ InitClass /\ IdleForms
SpecOrder == InitChain /\ [][DefineOrdered]_vars

\* chains of class statements with and without explicit layouts
SpecLayout == InitChain /\ [][DefineWithLayout]_vars

\* one instance over every data and initial mapping; attribute access and reads
InitValue == IdleCl /\ InitPerson(AFirst) /\ InitOneForm(DataTrees, InitialTrees)
NextValue == DoAccess \/ DoAccessChild \/ DoReadValue
SpecValue == InitValue /\ [][NextValue]_vars

\* one instance: loads, dumps and the error checks
InitErrors ==
    IdleCl /\ InitPerson(AFirst) /\ InitOneForm({EmptyMap, FullData}, {EmptyMap, FullInitial})
NextErrors == DoDeserialize \/ DoValidate \/ DoHasErrors \/ DoSerialize
SpecErrors == InitErrors /\ [][NextErrors]_vars

\* one instance: bound fields read while data and initial are replaced
InitBind == IdleCl /\ InitPerson(AFirst) /\ InitOneForm({FullData}, {FullInitial})
NextBind ==
    \/ DoAccess \/ DoAccessChild \/ DoReadValue
    \/ DoLoadDefault \/ DoSetData \/ DoSetInitial
SpecBind == InitBind /\ [][NextBind]_vars

\* one instance: fields added and removed, attribute access and iteration
InitDyn == IdleCl /\ InitPerson(AFirst) /\ InitOneForm({FullData}, {EmptyMap})
NextDyn == DoAddField \/ DoRemoveField \/ DoAccess \/ DoAccessChild \/ DoIterate
SpecDyn == InitDyn /\ [][NextDyn]_vars

\* two instances; attribute access and iteration
InitAccess ==
    /\ IdleCl /\ InitPerson(PersonBodies)
    /\ InitTwoForms({EmptyMap, FullData}, {EmptyMap, FullInitial})
NextAccess == DoAccess \/ DoAccessChild \/ DoIterate
SpecAccess == InitAccess /\ [][NextAccess]_vars

====
